---- MODULE Spec2Model ----
(***************************************************************************)
(* Model of finrl/marketdata/yahoodownloader.py: YahooDownloader.fetch_data *)
(* (a fan-out of one yf_downloader task per ticker over a                   *)
(* ThreadPoolExecutor, the as_completed fan-in, and the single-threaded     *)
(* normalisation of the accumulated DataFrame) and select_equal_rows_stock. *)
(*                                                                          *)
(* A DataFrame is [columns, rows]; a row is [label, cells]: its index label *)
(* and one cell per column.  A cell is [kind, n, s] with kind "num", "str", *)
(* "ts" (a timestamp, n = yyyymmdd) or "na" (NaN).  pandas semantics are    *)
(* those of the pandas 1.x the file was written for (DataFrame.append and   *)
(* positional axis in drop exist).                                          *)
(***************************************************************************)
EXTENDS Integers, Sequences, FiniteSets, TLC

\* ---------------------------------------------------------------- bounds
MaxTickers == 2
NPool == 11
MaxSelLen == 6
MaxBlock == 10

\* ------------------------------------------------------------- cells
NA == [kind |-> "na", n |-> 0, s |-> ""]
Num(v) == [kind |-> "num", n |-> v, s |-> ""]
Str(x) == [kind |-> "str", n |-> 0, s |-> x]
Ts(d) == [kind |-> "ts", n |-> d, s |-> ""]

Count(s, x) == Cardinality({k \in DOMAIN s : s[k] = x})

\* ------------------------------------------------------------- DataFrame
\* pd.DataFrame()
EmptyFrame == [columns |-> <<>>, rows |-> <<>>]

ColPos(df, name) == CHOOSE k \in DOMAIN df.columns : df.columns[k] = name

HasColumn(df, name) == \E k \in DOMAIN df.columns : df.columns[k] = name

\* df[name] = value : a new last column, or an overwrite of the existing one
SetColumnConst(df, name, value) ==
  IF HasColumn(df, name)
  THEN [df EXCEPT !.rows = [k \in DOMAIN df.rows |->
          [df.rows[k] EXCEPT !.cells[ColPos(df, name)] = value]]]
  ELSE [columns |-> Append(df.columns, name),
        rows |-> [k \in DOMAIN df.rows |->
          [df.rows[k] EXCEPT !.cells = Append(@, value)]]]

\* data_df.append(data): the rows of data after those of data_df, the index
\* labels kept.  Every frame appended here has the same columns, or data_df
\* has none yet and takes those of data.
append(df, other) ==
  IF Len(df.columns) = 0
  THEN [columns |-> other.columns, rows |-> df.rows \o other.rows]
  ELSE [columns |-> df.columns, rows |-> df.rows \o other.rows]

\* data_df.reset_index(): the index becomes the first column, the new index
\* is 0..n-1
reset_index(df) ==
  [columns |-> <<"index">> \o df.columns,
   rows |-> [k \in DOMAIN df.rows |->
      [label |-> Num(k - 1), cells |-> <<df.rows[k].label>> \o df.rows[k].cells]]]

reset_index_keep(df) == df

\* data_df.reset_index(drop=True): new index 0..n-1, the old one discarded
reset_index_drop(df) ==
  [df EXCEPT !.rows = [k \in DOMAIN df.rows |-> [df.rows[k] EXCEPT !.label = Num(k - 1)]]]

\* data_df.columns = [...] raises ValueError (length mismatch) unless the
\* number of names is the number of columns
SchemaNames == <<"date", "open", "high", "low", "close", "adjcp", "volume", "tic">>

RenameFits(df) == Len(df.columns) = Len(SchemaNames)

set_columns(df) == [df EXCEPT !.columns = SchemaNames]

use_adjcp_skip(df) == df

\* data_df['close'] = data_df['adjcp']
use_adjcp(df) ==
  [df EXCEPT !.rows = [k \in DOMAIN df.rows |->
      [df.rows[k] EXCEPT !.cells[ColPos(df, "close")] = df.rows[k].cells[ColPos(df, "adjcp")]]]]

RemoveAt(s, p) == [k \in 1..(Len(s) - 1) |-> IF k < p THEN s[k] ELSE s[k + 1]]

\* data_df.drop('adjcp', 1)
drop_column(df, name) ==
  [columns |-> RemoveAt(df.columns, ColPos(df, name)),
   rows |-> [k \in DOMAIN df.rows |->
      [df.rows[k] EXCEPT !.cells = RemoveAt(@, ColPos(df, name))]]]

Pad2(v) == IF v < 10 THEN "0" \o ToString(v) ELSE ToString(v)

Pad4(v) ==
  IF v < 10 THEN "000" \o ToString(v)
  ELSE IF v < 100 THEN "00" \o ToString(v)
  ELSE IF v < 1000 THEN "0" \o ToString(v)
  ELSE ToString(v)

\* x.strftime('%Y-%m-%d') of the timestamp yyyymmdd
strftime(c) ==
  Str(Pad4(c.n \div 10000) \o "-" \o Pad2((c.n \div 100) % 100) \o "-" \o Pad2(c.n % 100))

\* data_df['date'] = data_df.date.apply(lambda x: x.strftime('%Y-%m-%d'))
format_date(df) ==
  [df EXCEPT !.rows = [k \in DOMAIN df.rows |->
      [df.rows[k] EXCEPT !.cells[ColPos(df, "date")] = strftime(@)]]]

HasNA(row) == \E k \in DOMAIN row.cells : row.cells[k].kind = "na"

dropna_skip(df) == df

\* data_df.dropna(): the rows with no missing cell, their labels kept
dropna(df) ==
  LET Complete(r) == ~HasNA(r)
  IN [df EXCEPT !.rows = SelectSeq(df.rows, Complete)]

Shape(df) == <<Len(df.rows), Len(df.columns)>>

\* ------------------------------------------------------------- the vendor
\* What yf.download returns for one call: an error, or a frame indexed by
\* date with the six vendor columns.
VendorColumns == <<"Open", "High", "Low", "Close", "Adj Close", "Volume">>

Dates == <<20200102, 20201215, 20210305>>

\* the vendor row of call i for day d with the column at position miss
\* missing (0: none)
VendorRow(i, d, miss) ==
  [label |-> Ts(Dates[d]),
   cells |-> [c \in 1..6 |-> IF c = miss THEN NA ELSE Num(100 * i + 10 * d + c)]]

\* the shapes of vendor tables explored: a sequence of the missing column
\* of each day
TableShapes ==
  { <<>>, <<0>>, <<0, 0, 0>>, <<4, 5>>, <<1, 0, 6>>, <<2, 3>> }

VendorTable(i, shape) ==
  [columns |-> VendorColumns,
   rows |-> [d \in DOMAIN shape |-> VendorRow(i, d, shape[d])]]

Raises == [ok |-> FALSE, df |-> EmptyFrame]

Returns(df) == [ok |-> TRUE, df |-> df]

Tickers == {"AAA", "BBB"}

\* ------------------------------------------------------------- state
VARIABLES
  ticker_list,   \* self.ticker_list
  vendor,        \* what yf.download does for the call of each task
  pc,            \* where the thread that called fetch_data is
  submitted,     \* number of executor.submit calls made
  fstate,        \* per future: "none", "pending", "running", "finished"
  fresult,       \* per finished future: its result or its exception
  runs,          \* per future: how often yf_downloader was run for it
  waiting,       \* futures as_completed has not yielded yet
  consumed,      \* per future: how often future.result() was taken
  data,          \* the local `data`: [bound, df]
  data_df,       \* the local data_df
  diag,          \* lines printed
  exc,           \* the exception fetch_data raised, "" if none
  result,        \* the value fetch_data returned
  sel_pc,        \* select_equal_rows_stock: "idle", "call", "done"
  sel_df,        \* its argument
  sel_out        \* its return value

vars == <<ticker_list, vendor, pc, submitted, fstate, fresult, runs, waiting,
          consumed, data, data_df, diag, exc, result, sel_pc, sel_df, sel_out>>

N == Len(ticker_list)

Futures == 1..N

Unbound == [bound |-> FALSE, df |-> EmptyFrame]

Bound(df) == [bound |-> TRUE, df |-> df]

SeqsUpTo(S, n) == UNION {[1..k -> S] : k \in 0..n}

max_workers == 10

\* ------------------------------------------------------------- fetch_data
\* the nested yf_downloader(tic) of task i: the vendor's frame with a tic
\* column holding the task's own ticker, or the vendor's exception
yf_downloader_last(i) ==
  IF vendor[i].ok
  THEN Returns(SetColumnConst(vendor[i].df, "tic", Str(ticker_list[N])))
  ELSE Raises

yf_downloader(i) ==
  IF vendor[i].ok
  THEN Returns(SetColumnConst(vendor[i].df, "tic", Str(ticker_list[i])))
  ELSE Raises

Running == {i \in Futures : fstate[i] = "running"}

WorkerAlways == TRUE

\* ThreadPoolExecutor(max_workers=10): a queued task is taken only by one of
\* the 10 worker threads that is not running a task
WorkerAvailable == Cardinality(Running) < max_workers

shutdown_nowait == TRUE

\* leaving the with block calls executor.shutdown(wait=True): it returns
\* once every submitted task has run to its end
shutdown_wait == \A i \in 1..submitted : fstate[i] = "finished"

IdleSel == sel_pc = "idle" /\ sel_df = EmptyFrame /\ sel_out = EmptyFrame

Outcomes ==
  {[fail |-> TRUE, shape |-> <<>>]} \cup {[fail |-> FALSE, shape |-> sh] : sh \in TableShapes}

VendorOf(i, o) == IF o.fail THEN Raises ELSE Returns(VendorTable(i, o.shape))

InitLocals ==
  /\ pc = "submit"
  /\ submitted = 0
  /\ fstate = [i \in Futures |-> "none"]
  /\ fresult = [i \in Futures |-> Raises]
  /\ runs = [i \in Futures |-> 0]
  /\ waiting = {}
  /\ consumed = [i \in Futures |-> 0]
  /\ data = Unbound
  /\ data_df = EmptyFrame
  /\ diag = <<>>
  /\ exc = ""
  /\ result = EmptyFrame

\* a YahooDownloader for any short ticker list (duplicates allowed), with
\* fetch_data just called
Init ==
  /\ ticker_list \in SeqsUpTo(Tickers, MaxTickers)
  /\ \E o \in [Futures -> Outcomes] : vendor = [i \in Futures |-> VendorOf(i, o[i])]
  /\ InitLocals
  /\ IdleSel

\* future_to_url = {executor.submit(yf_downloader, tic): tic for tic in ...}:
\* one submit per ticker, in list order
Submit ==
  /\ pc = "submit"
  /\ submitted < N
  /\ submitted' = submitted + 1
  /\ fstate' = [fstate EXCEPT ![submitted + 1] = "pending"]
  /\ UNCHANGED <<ticker_list, vendor, pc, fresult, runs, waiting, consumed, data,
                 data_df, diag, exc, result, sel_pc, sel_df, sel_out>>

\* a worker thread takes the oldest queued task and starts running it
Start(i) ==
  /\ fstate[i] = "pending"
  /\ \A j \in Futures : j < i => fstate[j] # "pending"
  /\ WorkerAvailable
  /\ fstate' = [fstate EXCEPT ![i] = "running"]
  /\ runs' = [runs EXCEPT ![i] = @ + 1]
  /\ UNCHANGED <<ticker_list, vendor, pc, submitted, fresult, waiting, consumed, data,
                 data_df, diag, exc, result, sel_pc, sel_df, sel_out>>

\* the task returns or raises; the future holds the result or the exception
Finish(i) ==
  /\ fstate[i] = "running"
  /\ fstate' = [fstate EXCEPT ![i] = "finished"]
  /\ fresult' = [fresult EXCEPT ![i] = yf_downloader(i)]
  /\ UNCHANGED <<ticker_list, vendor, pc, submitted, runs, waiting, consumed, data,
                 data_df, diag, exc, result, sel_pc, sel_df, sel_out>>

\* concurrent.futures.as_completed(future_to_url) is entered once the dict
\* is built
BeginCollect ==
  /\ pc = "submit"
  /\ submitted = N
  /\ pc' = "collect"
  /\ waiting' = Futures
  /\ UNCHANGED <<ticker_list, vendor, submitted, fstate, fresult, runs, consumed, data,
                 data_df, diag, exc, result, sel_pc, sel_df, sel_out>>

ExceptionLine(i, shown) == [msg |-> "generated an exception", task |-> i, shape |-> Shape(shown)]

\* one iteration of the for loop: as_completed yields a finished future,
\* future.result() returns its frame (appended to data_df) or raises; the
\* handler formats the local `data`, which is unbound until some earlier
\* future has returned, and then the handler itself raises
Collect(i) ==
  /\ pc = "collect"
  /\ i \in waiting
  /\ fstate[i] = "finished"
  /\ waiting' = waiting \ {i}
  /\ consumed' = [consumed EXCEPT ![i] = @ + 1]
  /\ IF fresult[i].ok
     THEN /\ data' = Bound(fresult[i].df)
          /\ data_df' = append(data_df, fresult[i].df)
          /\ UNCHANGED <<pc, diag, exc>>
     ELSE IF data.bound
     THEN /\ diag' = Append(diag, ExceptionLine(i, data.df))
          /\ UNCHANGED <<pc, data, data_df, exc>>
     ELSE /\ exc' = "UnboundLocalError"
          /\ pc' = "unwind"
          /\ UNCHANGED <<data, data_df, diag>>
  /\ UNCHANGED <<ticker_list, vendor, submitted, fstate, fresult, runs, result,
                 sel_pc, sel_df, sel_out>>

\* as_completed is exhausted
EndCollect ==
  /\ pc = "collect"
  /\ waiting = {}
  /\ pc' = "exit"
  /\ UNCHANGED <<ticker_list, vendor, submitted, fstate, fresult, runs, waiting, consumed,
                 data, data_df, diag, exc, result, sel_pc, sel_df, sel_out>>

\* the with block is left, normally or by the exception of the loop
ExitWith ==
  /\ pc \in {"exit", "unwind"}
  /\ shutdown_wait
  /\ pc' = IF pc = "exit" THEN "post" ELSE "raised"
  /\ UNCHANGED <<ticker_list, vendor, submitted, fstate, fresult, runs, waiting, consumed,
                 data, data_df, diag, exc, result, sel_pc, sel_df, sel_out>>

ShapeLine(df) == [msg |-> "Shape of DataFrame", task |-> 0, shape |-> Shape(df)]

\* the try block once the rename has passed
Standardize(df) == drop_column(use_adjcp(set_columns(df)), "adjcp")

\* lines 80-83
Clean(df) == reset_index_drop(dropna(format_date(df)))

\* lines 68-87.  The assignment to columns raises ValueError when the frame
\* has not 8 columns; the handler is for NotImplementedError only, which
\* no statement of the try block raises, so the ValueError leaves fetch_data.
PostProcess ==
  /\ pc = "post"
  /\ LET indexed == reset_index(data_df)
     IN IF RenameFits(indexed)
        THEN /\ data_df' = Clean(Standardize(indexed))
             /\ result' = data_df'
             /\ diag' = Append(diag, ShapeLine(data_df'))
             /\ pc' = "returned"
             /\ exc' = exc
        ELSE /\ data_df' = indexed
             /\ exc' = "ValueError"
             /\ pc' = "raised"
             /\ UNCHANGED <<diag, result>>
  /\ UNCHANGED <<ticker_list, vendor, submitted, fstate, fresult, runs, waiting, consumed,
                 data, sel_pc, sel_df, sel_out>>

Next ==
  \/ Submit
  \/ \E i \in Futures : Start(i)
  \/ \E i \in Futures : Finish(i)
  \/ BeginCollect
  \/ \E i \in Futures : Collect(i)
  \/ EndCollect
  \/ ExitWith
  \/ PostProcess

Spec == Init /\ [][Next]_vars

\* ------------------------------------------------------------- a long list
PoolTicker(i) == IF i % 2 = 1 THEN "AAA" ELSE "BBB"

\* fetch_data called with more tickers than the pool has workers while the
\* vendor is unreachable (every call raises)
InitLong ==
  /\ ticker_list = [i \in 1..NPool |-> PoolTicker(i)]
  /\ vendor = [i \in Futures |-> Raises]
  /\ InitLocals
  /\ IdleSel

\* fetch_data called with a single ticker, the vendor answering anything
InitSingle ==
  /\ ticker_list = <<"AAA">>
  /\ \E o \in Outcomes : vendor = [i \in Futures |-> VendorOf(i, o)]
  /\ InitLocals
  /\ IdleSel

InitPool == InitSingle \/ InitLong

MainStep == Submit \/ BeginCollect \/ (\E i \in Futures : Collect(i)) \/ EndCollect
              \/ ExitWith \/ PostProcess

WorkerStep == \E i \in Futures : Start(i) \/ Finish(i)

\* every thread that can take a step is scheduled, and every vendor call ends
SpecPool == InitPool /\ [][Next]_vars /\ WF_vars(MainStep) /\ WF_vars(WorkerStep)

\* ------------------------------------------------- select_equal_rows_stock
TicOf(df, r) == r.cells[ColPos(df, "tic")]

CountOf(df, t) == Cardinality({k \in DOMAIN df.rows : TicOf(df, df.rows[k]) = t})

RECURSIVE SortDesc(_, _)
SortDesc(df, S) ==
  IF S = {} THEN <<>>
  ELSE LET t == CHOOSE t \in S : \A u \in S : CountOf(df, t) >= CountOf(df, u)
       IN <<[tic |-> t, counts |-> CountOf(df, t)]>> \o SortDesc(df, S \ {t})

\* df.tic.value_counts(): one entry per distinct ticker, most frequent first
value_counts(df) == SortDesc(df, {TicOf(df, df.rows[k]) : k \in DOMAIN df.rows})

RECURSIVE SumCounts(_)
SumCounts(vc) == IF vc = <<>> THEN 0 ELSE Head(vc).counts + SumCounts(Tail(vc))

\* df_check.counts.mean(), kept as the fraction sum / n (NaN when n = 0)
mean(vc) == [sum |-> SumCounts(vc), n |-> Len(vc)]

GtMean(c, m) == c * m.n > m.sum

\* counts >= mean_df for one entry: c >= sum / n
GeMean(c, m) == c * m.n >= m.sum

select_equal_rows_stock(df) ==
  LET df_check == value_counts(df)
      mean_df == mean(df_check)
      equal_list == [k \in DOMAIN df_check |-> GeMean(df_check[k].counts, mean_df)]
      select_stocks_list == {df_check[k].tic : k \in {j \in DOMAIN df_check : equal_list[j]}}
      isin(r) == TicOf(df, r) \in select_stocks_list
  IN [df EXCEPT !.rows = SelectSeq(df.rows, isin)]

SelTickers == {"AAA", "BBB", "CCC"}

\* a table with a tic column whose rows carry the given tickers
TableOf(tics) ==
  [columns |-> <<"close", "tic">>,
   rows |-> [k \in DOMAIN tics |-> [label |-> Num(k - 1), cells |-> <<Num(k), Str(tics[k])>>]]]

Block(a, b) == [k \in 1..(a + b) |-> IF k <= a THEN "AAA" ELSE "BBB"]

SelInputs ==
  {TableOf(t) : t \in SeqsUpTo(SelTickers, MaxSelLen)}
    \cup {TableOf(Block(a, b)) : a \in 0..MaxBlock, b \in 0..MaxBlock}

InitSel ==
  /\ sel_pc = "call"
  /\ sel_df \in SelInputs
  /\ sel_out = EmptyFrame
  /\ ticker_list = <<>>
  /\ vendor = <<>>
  /\ pc = "idle"
  /\ submitted = 0
  /\ fstate = <<>>
  /\ fresult = <<>>
  /\ runs = <<>>
  /\ waiting = {}
  /\ consumed = <<>>
  /\ data = Unbound
  /\ data_df = EmptyFrame
  /\ diag = <<>>
  /\ exc = ""
  /\ result = EmptyFrame

Select ==
  /\ sel_pc = "call"
  /\ sel_out' = select_equal_rows_stock(sel_df)
  /\ sel_pc' = "done"
  /\ UNCHANGED <<ticker_list, vendor, pc, submitted, fstate, fresult, runs, waiting,
                 consumed, data, data_df, diag, exc, result, sel_df>>

NextSel == Select

SpecSel == InitSel /\ [][NextSel]_vars

\* ------------------------------------------------------------- properties
Done == pc \in {"returned", "raised"}

CellsOf(df) == [k \in DOMAIN df.rows |-> df.rows[k].cells]

OutputColumns == <<"date", "open", "high", "low", "close", "volume", "tic">>

\* the output row a vendor row of task i stands for
ExpectedRow(i, vr) ==
  <<strftime(vr.label), vr.cells[1], vr.cells[2], vr.cells[3], vr.cells[5], vr.cells[6],
    Str(ticker_list[i])>>

VendorRows(i) == vendor[i].df.rows

HasLine(text, i) == \E k \in DOMAIN diag : diag[k].msg = text /\ diag[k].task = i

\* C1: a failed fetch task is caught for that task alone: a diagnostic is
\* printed for it, fetch_data does not abort, and the rows of every ticker
\* whose fetch returned are in the result.
C1_FailureIsolated ==
  /\ \A i \in Futures : (consumed[i] > 0 /\ ~vendor[i].ok) =>
        /\ pc \notin {"unwind", "raised"}
        /\ HasLine("generated an exception", i)
  /\ pc = "returned" =>
        \A i \in Futures : vendor[i].ok =>
          \A d \in DOMAIN VendorRows(i) :
            (\A c \in {1, 2, 3, 5, 6} : VendorRows(i)[d].cells[c].kind # "na") =>
               Count(CellsOf(result), ExpectedRow(i, VendorRows(i)[d])) > 0

NothingAccumulated == \A i \in Futures : ~vendor[i].ok

\* C2: when nothing was accumulated (empty ticker_list, or every fetch
\* failed) the frame has not the 8 columns of the schema; the rename failure
\* is caught, "the features are not supported currently" is printed and
\* fetch_data returns a table.
C2_RenameFailureCaught ==
  (Done /\ NothingAccumulated) =>
     /\ pc = "returned"
     /\ HasLine("the features are not supported currently", 0)

\* C3: fetch_data returns or raises only when every submitted task has
\* finished, no result is taken twice, and post-processing starts only when
\* the result of every task has been taken exactly once.
C3_FanIn ==
  /\ Done => \A i \in 1..submitted : fstate[i] = "finished"
  /\ \A i \in Futures : consumed[i] <= 1
  /\ (pc \in {"post", "returned"} \/ (pc = "raised" /\ exc = "ValueError")) =>
        /\ submitted = N
        /\ \A i \in Futures : fstate[i] = "finished" /\ consumed[i] = 1

C3_Witness ==
  /\ pc = "returned"
  /\ N >= 2
  /\ \A i \in Futures : consumed[i] = 1

\* C4: at every moment at most 10 fetch tasks are running, whatever the
\* length of ticker_list; no task is run twice, fetch_data comes to an end,
\* and by then every submitted task has been run exactly once.
C4_BoundedPool ==
  /\ [](/\ Cardinality(Running) <= max_workers
        /\ \A i \in Futures : runs[i] <= 1
        /\ Done => \A i \in Futures : runs[i] = 1)
  /\ <>Done

C4_Witness ==
  /\ N > max_workers
  /\ Cardinality(Running) = max_workers
  /\ \E i \in Futures : fstate[i] = "pending"

ResultTic(k) == TicOf(result, result.rows[k])

\* C5: for a non-empty ticker_list every row returned has a tic of the list,
\* and such a ticker has a fetch task of its own that succeeded.
C5_TicFromList ==
  (pc = "returned" /\ N > 0) =>
     \A k \in DOMAIN result.rows :
        \E i \in Futures : ResultTic(k) = Str(ticker_list[i]) /\ vendor[i].ok

C5_Witness ==
  /\ pc = "returned"
  /\ Len(result.rows) > 0
  /\ \E i \in Futures : ~vendor[i].ok

\* C6: no row returned has a missing value in any of its 7 columns.
C6_NoMissing ==
  pc = "returned" =>
     /\ result.columns = OutputColumns
     /\ \A k \in DOMAIN result.rows :
          /\ Len(result.rows[k].cells) = 7
          /\ ~HasNA(result.rows[k])

C6_Witness ==
  /\ pc = "returned"
  /\ Len(result.rows) > 0
  /\ \E i \in Futures : vendor[i].ok /\ \E d \in DOMAIN VendorRows(i) : HasNA(VendorRows(i)[d])

AllSucceed == \A i \in Futures : vendor[i].ok

NoFieldMissing(vr) == ~HasNA(vr)

\* complete but for the raw close, which close := adjcp replaces
NoFieldButCloseMissing(vr) == \A c \in {1, 2, 3, 5, 6} : vr.cells[c].kind # "na"

\* the result holds exactly one row per vendor row satisfying Kept
ExactlyTheRows(Kept(_)) ==
  /\ \A k \in DOMAIN result.rows :
        \E i \in Futures : \E d \in DOMAIN VendorRows(i) :
           Kept(VendorRows(i)[d]) /\ result.rows[k].cells = ExpectedRow(i, VendorRows(i)[d])
  /\ \A i \in Futures : \A d \in DOMAIN VendorRows(i) :
        LET e == ExpectedRow(i, VendorRows(i)[d])
        IN Kept(VendorRows(i)[d]) =>
             Count(CellsOf(result), e) =
               Cardinality({<<j, x>> \in Futures \X (1..Len(Dates)) :
                  /\ x \in DOMAIN VendorRows(j)
                  /\ Kept(VendorRows(j)[x])
                  /\ ExpectedRow(j, VendorRows(j)[x]) = e})

SequentialIndex == \A k \in DOMAIN result.rows : result.rows[k].label = Num(k - 1)

\* C7 as stated: when every fetch succeeds the result holds exactly one row
\* per vendor row that has no missing field, tagged with its ticker, and
\* the index is 0..n-1.
C7_Original ==
  (pc = "returned" /\ AllSucceed) => (ExactlyTheRows(NoFieldMissing) /\ SequentialIndex)

\* C7 amended: when every fetch succeeds the result holds exactly one row
\* per vendor row that has no missing field other than the raw close (which
\* is replaced by the adjusted close), tagged with its ticker, and the index
\* is 0..n-1.
C7_ExactRows ==
  (pc = "returned" /\ AllSucceed) => (ExactlyTheRows(NoFieldButCloseMissing) /\ SequentialIndex)

C7_Witness ==
  /\ pc = "returned"
  /\ AllSucceed
  /\ Len(result.rows) >= 3
  /\ \E i \in Futures : \E d \in DOMAIN VendorRows(i) :
        /\ VendorRows(i)[d].cells[4].kind = "na"
        /\ Count(CellsOf(result), ExpectedRow(i, VendorRows(i)[d])) = 1

\* C8: the columns returned are date, open, high, low, close, volume, tic,
\* and the close of every row is the adjusted close the vendor gave for
\* that ticker and date, not its raw close.
C8_CloseIsAdjusted ==
  pc = "returned" =>
     /\ result.columns = OutputColumns
     /\ \A k \in DOMAIN result.rows :
          \E i \in Futures : \E d \in DOMAIN VendorRows(i) :
             LET vr == VendorRows(i)[d]
                 row == result.rows[k].cells
             IN /\ vendor[i].ok
                /\ row[7] = Str(ticker_list[i])
                /\ row[1] = strftime(vr.label)
                /\ row[5] = vr.cells[5]
                /\ row[5] # vr.cells[4]

C8_Witness ==
  /\ pc = "returned"
  /\ \E k \in DOMAIN result.rows : result.rows[k].cells[5].kind = "num"

SelRowsWithTic(r) == Cardinality({k \in DOMAIN sel_df.rows : sel_df.rows[k].cells[2] = r.cells[2]})

SelDistinct == Cardinality({sel_df.rows[k].cells[2] : k \in DOMAIN sel_df.rows})

\* C9: select_equal_rows_stock returns exactly the rows whose ticker has at
\* least the mean number of rows per distinct ticker, in their original
\* order.
C9_AtLeastMean ==
  sel_pc = "done" =>
     LET AtLeastMean(r) == SelRowsWithTic(r) * SelDistinct >= Len(sel_df.rows)
     IN sel_out = [columns |-> sel_df.columns, rows |-> SelectSeq(sel_df.rows, AtLeastMean)]

C9_Witness ==
  /\ sel_pc = "done"
  /\ Len(sel_df.rows) = 14
  /\ Len(sel_out.rows) = 10

\* the for loop run over the futures in submission order
RECURSIVE LoopInOrder(_, _)
LoopInOrder(k, st) ==
  IF k > N \/ st.raised THEN st
  ELSE LoopInOrder(k + 1,
         IF vendor[k].ok
         THEN [bound |-> TRUE, raised |-> FALSE, df |-> append(st.df, yf_downloader(k).df)]
         ELSE IF st.bound THEN st
         ELSE [st EXCEPT !.raised = TRUE])

InOrder == LoopInOrder(1, [bound |-> FALSE, raised |-> FALSE, df |-> EmptyFrame])

InOrderRaises == InOrder.raised \/ ~RenameFits(reset_index(InOrder.df))

InOrderResult == Clean(Standardize(reset_index(InOrder.df)))

\* C10: for a fixed ticker_list and fixed vendor outcomes, fetch_data ends the
\* same way for every completion order, namely as it does when the tasks
\* complete in submission order: it raises in both or returns in both, and
\* then with the same multiset of rows.
C10_OrderIndependent ==
  Done =>
     /\ (pc = "raised") = InOrderRaises
     /\ pc = "returned" =>
          /\ Len(result.rows) = Len(InOrderResult.rows)
          /\ \A k \in DOMAIN result.rows :
               Count(CellsOf(result), result.rows[k].cells)
                 = Count(CellsOf(InOrderResult), result.rows[k].cells)

====
